---- MODULE Spec2Model ----
(***************************************************************************)
(* The streaming chat-to-audio pipeline of chat-cf-serverless: handleChat  *)
(* (theme-aware, authenticated variant) and its streamResponse task, as a  *)
(* state machine.  One invocation is followed from the arrival of the      *)
(* request to the settlement of the finalizer's writer.close().            *)
(*                                                                         *)
(* Text is a sequence of code units over a small alphabet.  The unit "A"   *)
(* stands for a run of OPENAI_TTS_TEXT_LENGTH_MAX letters, so that texts   *)
(* at and just above the synthesizer's limit are representable.            *)
(***************************************************************************)
EXTENDS Integers, Sequences, FiniteSets, TLC

\* ------------------------------------------------------------------ bounds
MaxLines == 2

\* --------------------------------------------------------------- constants
OPENAI_TTS_TEXT_LENGTH_MAX == 4096

\* -------------------------------------------------------------------- text
Letter == "a"
Run == "A"
Space == " "
Punct == "."
NL == "\n"

Width(c) == IF c = Run THEN OPENAI_TTS_TEXT_LENGTH_MAX ELSE 1

\* String.prototype.length of a text
RECURSIVE Length(_)
Length(s) == IF s = <<>> THEN 0 ELSE Width(Head(s)) + Length(Tail(s))

\* String.prototype.split('\n')
RECURSIVE SplitFrom(_, _)
SplitFrom(s, cur) ==
  IF s = <<>> THEN <<cur>>
  ELSE IF Head(s) = NL THEN <<cur>> \o SplitFrom(Tail(s), <<>>)
  ELSE SplitFrom(Tail(s), Append(cur, Head(s)))

Split(s) == SplitFrom(s, <<>>)

\* String.prototype.trim()
RECURSIVE TrimStart(_)
TrimStart(s) ==
  IF s # <<>> /\ Head(s) \in {Space, NL} THEN TrimStart(Tail(s)) ELSE s

RECURSIVE TrimEnd(_)
TrimEnd(s) ==
  IF s # <<>> /\ s[Len(s)] \in {Space, NL}
  THEN TrimEnd(SubSeq(s, 1, Len(s) - 1)) ELSE s

Trim(s) == TrimEnd(TrimStart(s))

\* /[a-zA-Z0-9]/.test(para)
HasAlnum(s) == \E k \in 1..Len(s) : s[k] \in {Letter, Run}

\* mutant: only the blank lines are dropped
KeepParagraphTrimOnly(para) == Trim(para) # <<>>

\* the predicate of the paragraph filter
KeepParagraph(para) == Trim(para) # <<>> /\ HasAlnum(para)

\* mutant: the kept lines collected in reverse
RECURSIVE FilterReversed(_)
FilterReversed(ls) ==
  IF ls = <<>> THEN <<>>
  ELSE IF KeepParagraph(Head(ls)) THEN FilterReversed(Tail(ls)) \o <<Head(ls)>>
  ELSE FilterReversed(Tail(ls))

RECURSIVE Filter(_)
Filter(ls) ==
  IF ls = <<>> THEN <<>>
  ELSE IF KeepParagraph(Head(ls)) THEN <<Head(ls)>> \o Filter(Tail(ls))
  ELSE Filter(Tail(ls))

\* mutant: the filter run from the second line on
SegmentFromSecond(content) == Filter(Tail(Split(content)))

\* assistantMessage.content.split('\n').filter(...)
Segment(content) == Filter(Split(content))

\* mutant: the limit taken as exclusive
TooLongInclusive(para) == Length(para) >= OPENAI_TTS_TEXT_LENGTH_MAX

\* the loop's guard for skipping a paragraph
TooLong(para) == Length(para) > OPENAI_TTS_TEXT_LENGTH_MAX

\* the for-loop's `continue` over oversized paragraphs, from index k (0-based)
RECURSIVE SkipOversized(_, _)
SkipOversized(ps, k) ==
  IF k < Len(ps) /\ TooLong(ps[k + 1]) THEN SkipOversized(ps, k + 1) ELSE k

\* ------------------------------------------------------------------ inputs
Null == [null |-> TRUE]
\* no error caught (a message is a non-empty sequence)
NoError == <<>>

Methods == {"POST", "PUT"}
Years == {2026}
\* rows of user_account the lookup may return (null when there is none)
UserRows == {[yob |-> 2018, preferred_voice |-> "nova"],
             [yob |-> 2016, preferred_voice |-> "echo"],
             [yob |-> 2027, preferred_voice |-> "nova"]}
Users == {Null} \cup UserRows
\* a query parameter that is absent reads as ""
QueryTypes == {"", "story", "qna", "fairy"}
CurrentTimes == {"", "2022-02-22T22:22:22+08:00", "tomorrow"}
VisualTasks == {"", "Plants", "Cars"}

UserMsg == [role |-> "user", content |-> <<Letter>>]
AsstMsg == [role |-> "assistant", content |-> <<Letter, Punct>>]
Histories == {<<>>, <<UserMsg>>, <<AsstMsg>>, <<UserMsg, AsstMsg>>,
              <<UserMsg, AsstMsg, UserMsg>>}
Bodies == {[kind |-> "malformed", dialogHistory |-> <<>>],
           [kind |-> "noarray", dialogHistory |-> <<>>]}
          \cup {[kind |-> "array", dialogHistory |-> h] : h \in Histories}

Requests == [method : Methods, year : Years, user : Users,
             query_type : QueryTypes, current_time : CurrentTimes,
             visual_task : VisualTasks, body : Bodies]

\* the texts a line of the assistant's reply is drawn from
LineTexts == {<<>>, <<Space>>, <<Punct>>, <<Letter>>, <<Run>>, <<Run, Letter>>}

RECURSIVE JoinLines(_)
JoinLines(ls) ==
  IF ls = <<>> THEN <<>>
  ELSE IF Len(ls) = 1 THEN ls[1]
  ELSE ls[1] \o <<NL>> \o JoinLines(Tail(ls))

Replies == UNION {{JoinLines(ls) : ls \in [1..n -> LineTexts]} : n \in 1..MaxLines}

CompletionErrors == {<<"429 rate limit">>, <<"Connection error.">>}
SynthErrors == {<<"500 tts down">>}
\* the reason a write rejects with once the readable side is cancelled
CancelReason == <<"client disconnected">>

\* `OpenAI TTS: ${error.message}`
TTSError(msg) == <<"OpenAI TTS: ">> \o msg

\* the data URI getOpenAIAudio returns for a text and a voice
DataUri(text, voice) == <<"data:audio/mpeg;base64,", text, voice>>

\* --------------------------------------- the verification requests' inputs
MaxInFlight == 2
MaxRequests == 2

\* the invocations of handleEmailVerification that can overlap
Slots == 1..MaxInFlight

Emails == {"kid@example.com", "new@example.com", "kid@home"}
Types == {"registration", "reset-pw", "reset"}

\* the emails getUserByEmail finds a row for
Registered == {"kid@example.com"}

\* `ratelimit_${type}_${email}`
RateLimitKey(email, type) == "ratelimit_" \o type \o "_" \o email
RateLimitKeys == {RateLimitKey(e, t) : e \in Emails, t \in Types}

\* `${email}_${type}`
CodeKey(email, type) == email \o "_" \o type

\* a POST with a JSON body of each email and type, a PUT and a body that is
\* not JSON
EmailRequests ==
  {[method |-> "POST", kind |-> "json", email |-> e, type |-> t] :
     e \in Emails, t \in Types}
    \cup {[method |-> "PUT", kind |-> "json", email |-> "kid@example.com",
           type |-> "registration"],
          [method |-> "POST", kind |-> "malformed", email |-> "", type |-> ""]}

\* generateVerificationCode: Math.floor(1000 + Math.random() * 9000).toString()
VerificationCodes == {"1000", "9999"}

IdleInvocation ==
  [pc |-> "idle", req |-> Null, currentAttempts |-> "", arrivedAt |-> 0,
   status |-> 0, stored |-> FALSE, sent |-> FALSE]

\* ------------------------------------------------------------------- state
VARIABLES
  request,          \* the request handleChat was invoked with (Null before)
  response,         \* the Response handleChat returned (Null before)
  pc,               \* where the invocation is
  user,             \* the row getUserByEmail returned
  dialogHistory,    \* handleChat's dialogHistory array
  paragraphs,       \* streamResponse's paragraphs
  i,                \* the for-loop's index
  pending,          \* the chunk of the writer.write() being awaited
  lines,            \* the records the stream has accepted, in order
  writer,           \* "none", "open", "closed" or "errored"
  completionCalls,  \* calls of openai.chat.completions.create
  synthCalls,       \* calls of openai.audio.speech.create, in order
  closeCalls,       \* calls of writer.close()
  error,            \* the message of the error the catch block caught
  userMessage,      \* the argument of a call of detectThemes
  detected,         \* what that call returned or threw (Null before)
  handler,          \* the route whose handler fetch dispatched to ("none" before)
  chatCompletion,   \* the message the completion resolved with (index.js)
  audioSegments,    \* handleBedTimeStoryChat's audioSegments
  transcriptionCalls, \* calls of openai.audio.transcriptions.create
  messages,         \* the messages handed to the completion call (Null before)
  kv,               \* env.VERIFICATION_CODES: key -> value
  inv,              \* the invocations of handleEmailVerification in flight
  passed,           \* per (email, type): the calls of checkRateLimit that returned true
  received          \* the verification requests received so far

\* what the chat handler of chatHandlersVer0910.js never touches: the theme
\* detector's call and the state of the worker entry point of index.js
themeVars == <<userMessage, detected>>
workerVars == <<handler, chatCompletion, audioSegments, transcriptionCalls>>
promptVars == <<messages>>
emailVars == <<kv, inv, passed, received>>
aux == <<themeVars, workerVars, promptVars, emailVars>>

chatVars == <<request, response, pc, user, dialogHistory, paragraphs, i, pending,
              lines, writer, completionCalls, synthCalls, closeCalls, error>>

vars == <<chatVars, aux>>

\* nothing invoked yet
Idle ==
  /\ request = Null
  /\ response = Null
  /\ pc = "idle"
  /\ user = Null
  /\ dialogHistory = <<>>
  /\ paragraphs = <<>>
  /\ i = 0
  /\ pending = Null
  /\ lines = <<>>
  /\ writer = "none"
  /\ completionCalls = 0
  /\ synthCalls = <<>>
  /\ closeCalls = 0
  /\ error = NoError
  /\ handler = "none"
  /\ chatCompletion = Null
  /\ audioSegments = <<>>
  /\ transcriptionCalls = 0
  /\ messages = Null
  /\ inv = [p \in Slots |-> IdleInvocation]
  /\ received = 0

\* no verification request was made in this window
EmptyStore ==
  /\ kv = [k \in {} |-> ""]
  /\ passed = [k \in RateLimitKeys |-> 0]

Init ==
  /\ Idle
  /\ EmptyStore
  /\ userMessage = Null
  /\ detected = Null

\* -------------------------------------------------------------- validation
validQueryTypes == {"story", "qna"}
validVisualTasks == {"Micro", "Plants", "Animals", "Insects", "Daily", "Translation"}
\* the strings Date.parse() does not answer NaN for
ParsableTimes ==
  {"2022-02-22T22:22:22+08:00", "2022-02-22T07:30:00-05:00",
   "2022-02-22T03:00:00Z", "2022-02-22T21:00:00"}

\* mutant: no default for an absent query_type
QueryTypeNoDefault(req) == req.query_type

\* url.searchParams.get('query_type') || 'qna'
QueryType(req) == IF req.query_type = "" THEN "qna" ELSE req.query_type

Resp(status, contentType) == [status |-> status, contentType |-> contentType]

\* mutant: only the emptiness of the history is checked
BadHistoryEmptyOnly(h) == Len(h) = 0

\* dialogHistory.length === 0 || dialogHistory[dialogHistory.length - 1].role !== 'user'
BadHistory(h) == Len(h) = 0 \/ h[Len(h)].role # "user"

\* mutant: the visual_task check left out
EarlyReturnNoTaskCheck(req) ==
  IF req.method # "POST" THEN Resp(405, "application/json")
  ELSE IF req.user = Null THEN Resp(404, "application/json")
  ELSE IF req.year - req.user.yob < 0 THEN Resp(400, "application/json")
  ELSE IF QueryType(req) \notin validQueryTypes THEN Resp(400, "")
  ELSE IF req.current_time # "" /\ req.current_time \notin ParsableTimes
    THEN Resp(400, "")
  ELSE IF req.body.kind # "array" THEN Resp(400, "")
  ELSE IF BadHistory(req.body.dialogHistory) THEN Resp(400, "")
  ELSE Null

\* the early returns of handleChat, in the order of the code; Null when none applies
EarlyReturn(req) ==
  IF req.method # "POST" THEN Resp(405, "application/json")
  ELSE IF req.user = Null THEN Resp(404, "application/json")
  ELSE IF req.year - req.user.yob < 0 THEN Resp(400, "application/json")
  ELSE IF QueryType(req) \notin validQueryTypes THEN Resp(400, "")
  ELSE IF req.current_time # "" /\ req.current_time \notin ParsableTimes
    THEN Resp(400, "")
  ELSE IF req.visual_task # "" /\ req.visual_task \notin validVisualTasks
    THEN Resp(400, "")
  ELSE IF req.body.kind # "array" THEN Resp(400, "")
  ELSE IF BadHistory(req.body.dialogHistory) THEN Resp(400, "")
  ELSE Null

\* ------------------------------------------------------------- the records
\* mutant: the reply is concatenated into a copy that is dropped
PushDropped(h, m) == h

\* dialogHistory.push(assistantMessage)
Push(h, m) == Append(h, m)

\* mutant: the index counted from 1, as the log lines count paragraphs
ChunkOneBased(h, ps, k, audio) ==
  [dialogHistory |-> h,
   currentParagraph |-> [index |-> k + 1, text |-> ps[k + 1], audio |-> audio]]

\* mutant: the index counts the paragraphs still to come
ChunkCountdown(h, ps, k, audio) ==
  [dialogHistory |-> h,
   currentParagraph |-> [index |-> Len(ps) - 1 - k, text |-> ps[k + 1],
                         audio |-> audio]]

\* the loop's chunk for paragraph k (0-based)
Chunk(h, ps, k, audio) ==
  [dialogHistory |-> h,
   currentParagraph |-> [index |-> k, text |-> ps[k + 1], audio |-> audio]]

\* mutant: a fixed message in place of error.message
ErrorChunkGeneric(h, msg) ==
  [dialogHistory |-> h, currentParagraph |-> Null,
   error |-> <<"Internal Server Error">>]

\* mutant: the error record built from the request's history
ErrorChunkStale(h, msg) ==
  [dialogHistory |-> request.body.dialogHistory, currentParagraph |-> Null,
   error |-> msg]

\* the catch block's errorChunk
ErrorChunk(h, msg) ==
  [dialogHistory |-> h, currentParagraph |-> Null, error |-> msg]

\* --------------------------------------------------------- streamResponse
\* mutant: the stream closed after the loop and again in the finalizer
FinallyTwice ==
  /\ closeCalls' = closeCalls + 2
  /\ writer' = IF writer = "open" THEN "closed" ELSE writer
  /\ pc' = "closing"

\* finally { await writer.close() }: the call is made; an errored stream stays errored
Finally ==
  /\ closeCalls' = closeCalls + 1
  /\ writer' = IF writer = "open" THEN "closed" ELSE writer
  /\ pc' = "closing"

\* mutant: break in place of continue at an oversized paragraph
LoopBreakOnOversized(ps, k, voice) ==
  /\ i' = k
  /\ IF k < Len(ps) /\ ~TooLong(ps[k + 1])
     THEN /\ synthCalls' = Append(synthCalls, [text |-> ps[k + 1], voice |-> voice])
          /\ pc' = "synthesizing"
          /\ UNCHANGED <<writer, closeCalls>>
     ELSE /\ UNCHANGED synthCalls
          /\ Finally

\* mutant: the voice of the call fixed to nova
LoopDefaultVoice(ps, k, voice) ==
  LET j == SkipOversized(ps, k) IN
    /\ i' = j
    /\ IF j < Len(ps)
       THEN /\ synthCalls' = Append(synthCalls, [text |-> ps[j + 1], voice |-> "nova"])
            /\ pc' = "synthesizing"
            /\ UNCHANGED <<writer, closeCalls>>
       ELSE /\ UNCHANGED synthCalls
            /\ Finally

\* the for-loop from index k up to its next await: the call of getOpenAIAudio
\* for the next paragraph within the limit, or the end of the loop
Loop(ps, k, voice) ==
  LET j == SkipOversized(ps, k) IN
    /\ i' = j
    /\ IF j < Len(ps)
       THEN /\ synthCalls' = Append(synthCalls, [text |-> ps[j + 1], voice |-> voice])
            /\ pc' = "synthesizing"
            /\ UNCHANGED <<writer, closeCalls>>
       ELSE /\ UNCHANGED synthCalls
            /\ Finally

\* catch (error): the write of the errorChunk is issued
Catch(h, msg) ==
  /\ error' = msg
  /\ pending' = ErrorChunk(h, msg)
  /\ pc' = "errwriting"

\* handleChat, whole: the validations, and for a request that passes them the
\* stream, the start of streamResponse (which calls the completion at once) and
\* the streamed Response
HandleChat(req) ==
  /\ UNCHANGED aux
  /\ pc = "idle"
  /\ request' = req
  /\ IF EarlyReturn(req) # Null
     THEN /\ response' = EarlyReturn(req)
          /\ pc' = "returned"
          /\ UNCHANGED <<user, dialogHistory, writer, completionCalls>>
     ELSE /\ user' = req.user
          /\ dialogHistory' = req.body.dialogHistory
          /\ writer' = "open"
          /\ completionCalls' = completionCalls + 1
          /\ pc' = "generating"
          /\ response' = Resp(200, "application/json")
  /\ UNCHANGED <<paragraphs, i, pending, lines, synthCalls, closeCalls, error>>

\* getOpenAIChatResponse resolves with the assistant's message
GenerationResolve(content) ==
  /\ UNCHANGED aux
  /\ pc = "generating"
  /\ dialogHistory' = Push(dialogHistory, [role |-> "assistant", content |-> content])
  /\ paragraphs' = Segment(content)
  /\ Loop(paragraphs', 0, user.preferred_voice)
  /\ UNCHANGED <<request, response, user, pending, lines, completionCalls, error>>

\* mutant: the completion called again after a first failure
GenerationRejectRetry(msg) ==
  /\ UNCHANGED aux
  /\ pc = "generating"
  /\ IF completionCalls < 2
     THEN /\ completionCalls' = completionCalls + 1
          /\ UNCHANGED <<pc, pending, error>>
     ELSE /\ Catch(dialogHistory, msg)
          /\ UNCHANGED completionCalls
  /\ UNCHANGED <<request, response, user, dialogHistory, paragraphs, i, lines,
                 writer, synthCalls, closeCalls>>

\* getOpenAIChatResponse rejects
GenerationReject(msg) ==
  /\ UNCHANGED aux
  /\ pc = "generating"
  /\ Catch(dialogHistory, msg)
  /\ UNCHANGED <<request, response, user, dialogHistory, paragraphs, i, lines,
                 writer, completionCalls, synthCalls, closeCalls>>

\* mutant: the write issued without await, the loop going on at once
SynthResolveNoAwait ==
  /\ UNCHANGED aux
  /\ pc = "synthesizing"
  /\ pending' = Chunk(dialogHistory, paragraphs, i,
                      DataUri(paragraphs[i + 1], user.preferred_voice))
  /\ Loop(paragraphs, i + 1, user.preferred_voice)
  /\ UNCHANGED <<request, response, user, dialogHistory, paragraphs, lines,
                 completionCalls, error>>

\* getOpenAIAudio resolves: the chunk is built and its write is issued
SynthResolve ==
  /\ UNCHANGED aux
  /\ pc = "synthesizing"
  /\ pending' = Chunk(dialogHistory, paragraphs, i,
                      DataUri(paragraphs[i + 1], user.preferred_voice))
  /\ pc' = "writing"
  /\ UNCHANGED <<request, response, user, dialogHistory, paragraphs, i, lines,
                 writer, completionCalls, synthCalls, closeCalls, error>>

\* getOpenAIAudio rejects
SynthReject(msg) ==
  /\ UNCHANGED aux
  /\ pc = "synthesizing"
  /\ Catch(dialogHistory, TTSError(msg))
  /\ UNCHANGED <<request, response, user, dialogHistory, paragraphs, i, lines,
                 writer, completionCalls, synthCalls, closeCalls>>

\* the consumer takes the chunk: the write resolves and the loop goes on
WriteResolve ==
  /\ UNCHANGED aux
  /\ pc = "writing"
  /\ writer = "open"
  /\ lines' = Append(lines, pending)
  /\ pending' = Null
  /\ Loop(paragraphs, i + 1, user.preferred_voice)
  /\ UNCHANGED <<request, response, user, dialogHistory, paragraphs, completionCalls, error>>

\* mutant: the rejected write caught inside the loop, which goes on
WriteRejectContinue ==
  /\ UNCHANGED aux
  /\ pc = "writing"
  /\ writer = "errored"
  /\ error' = CancelReason
  /\ pending' = Null
  /\ Loop(paragraphs, i + 1, user.preferred_voice)
  /\ UNCHANGED <<request, response, user, dialogHistory, paragraphs, lines,
                 completionCalls>>

\* the write rejects: the stream is errored
WriteReject ==
  /\ UNCHANGED aux
  /\ pc = "writing"
  /\ writer = "errored"
  /\ Catch(dialogHistory, CancelReason)
  /\ UNCHANGED <<request, response, user, dialogHistory, paragraphs, i, lines,
                 writer, completionCalls, synthCalls, closeCalls>>

\* mutant: the try/catch inside the loop, which goes on with the next paragraph
ErrWriteResolveContinue ==
  /\ UNCHANGED aux
  /\ pc = "errwriting"
  /\ writer = "open"
  /\ lines' = Append(lines, pending)
  /\ pending' = Null
  /\ Loop(paragraphs, IF paragraphs = <<>> THEN 0 ELSE i + 1, user.preferred_voice)
  /\ UNCHANGED <<request, response, user, dialogHistory, paragraphs,
                 completionCalls, error>>

\* mutant: the error record written in the catch block and again in the finalizer
ErrWriteResolveTwice ==
  /\ UNCHANGED aux
  /\ pc = "errwriting"
  /\ writer = "open"
  /\ lines' = lines \o <<pending, pending>>
  /\ pending' = Null
  /\ Finally
  /\ UNCHANGED <<request, response, user, dialogHistory, paragraphs, i,
                 completionCalls, synthCalls, error>>

\* the write of the errorChunk resolves; then the finalizer
ErrWriteResolve ==
  /\ UNCHANGED aux
  /\ pc = "errwriting"
  /\ writer = "open"
  /\ lines' = Append(lines, pending)
  /\ pending' = Null
  /\ Finally
  /\ UNCHANGED <<request, response, user, dialogHistory, paragraphs, i,
                 completionCalls, synthCalls, error>>

\* mutant: the close after the catch block instead of in a finalizer
ErrWriteRejectNoFinally ==
  /\ UNCHANGED aux
  /\ pc = "errwriting"
  /\ writer = "errored"
  /\ pending' = Null
  /\ pc' = "done"
  /\ UNCHANGED <<request, response, user, dialogHistory, paragraphs, i, lines,
                 writer, completionCalls, synthCalls, closeCalls, error>>

\* the write of the errorChunk rejects: the finalizer runs all the same
ErrWriteReject ==
  /\ UNCHANGED aux
  /\ pc = "errwriting"
  /\ writer = "errored"
  /\ pending' = Null
  /\ Finally
  /\ UNCHANGED <<request, response, user, dialogHistory, paragraphs, i, lines,
                 completionCalls, synthCalls, error>>

\* the promise of writer.close() settles and streamResponse ends
CloseSettle ==
  /\ UNCHANGED aux
  /\ pc = "closing"
  /\ pc' = "done"
  /\ UNCHANGED <<request, response, user, dialogHistory, paragraphs, i, pending,
                 lines, writer, completionCalls, synthCalls, closeCalls, error>>

\* the client goes away: the readable side is cancelled, the writable side errors
ConsumerCancel ==
  /\ UNCHANGED aux
  /\ writer = "open"
  /\ writer' = "errored"
  /\ UNCHANGED <<request, response, pc, user, dialogHistory, paragraphs, i,
                 pending, lines, completionCalls, synthCalls, closeCalls, error>>

Next ==
  \/ \E req \in Requests : HandleChat(req)
  \/ \E content \in Replies : GenerationResolve(content)
  \/ \E msg \in CompletionErrors : GenerationReject(msg)
  \/ SynthResolve
  \/ \E msg \in SynthErrors : SynthReject(msg)
  \/ WriteResolve
  \/ WriteReject
  \/ ErrWriteResolve
  \/ ErrWriteReject
  \/ CloseSettle
  \/ ConsumerCancel

Spec == Init /\ [][Next]_vars

\* the steps of streamResponse: every one settles a call it awaits
Pipeline ==
  \/ \E content \in Replies : GenerationResolve(content)
  \/ \E msg \in CompletionErrors : GenerationReject(msg)
  \/ SynthResolve
  \/ \E msg \in SynthErrors : SynthReject(msg)
  \/ WriteResolve
  \/ WriteReject
  \/ ErrWriteResolve
  \/ ErrWriteReject
  \/ CloseSettle

\* requests that leave the query parameters out (the parameters reach the
\* system prompt only, never streamResponse's control flow)
PlainRequests ==
  {req \in Requests :
     req.query_type = "" /\ req.current_time = "" /\ req.visual_task = ""}

FairNext ==
  \/ \E req \in PlainRequests : HandleChat(req)
  \/ Pipeline
  \/ ConsumerCancel

\* every call streamResponse awaits settles (the completion and the synthesis
\* answer or fail, the consumer reads or goes away)
FairSpec == Init /\ [][FairNext]_vars /\ WF_vars(Pipeline)

\* ------------------------------------------------------------ detectThemes
\* texts here are strings; a content part is a record, a null entry is Null
MaxWords == 2
MaxParts == 2

\* Object.keys(THEMES), in insertion order
ThemeKeys ==
  <<"ADVENTURE", "FAMILY", "FRIENDSHIP", "MAGIC", "SCIFI", "COMEDY", "GROWTH">>

\* THEMES[key].keywords
Keywords(key) ==
  CASE key = "ADVENTURE" ->
         {"adventure", "explore", "quest", "journey", "discover", "mission",
          "expedition", "treasure", "map"}
    [] key = "FAMILY" -> {"family", "parents", "siblings", "home", "relatives"}
    [] key = "FRIENDSHIP" -> {"friends", "friendship", "teamwork", "loyalty"}
    [] key = "MAGIC" ->
         {"magic", "wizard", "witch", "spell", "magical", "enchanted"}
    [] key = "SCIFI" -> {"space", "future", "robot", "technology", "science"}
    [] key = "COMEDY" -> {"funny", "humor", "laugh", "joke", "silly"}
    [] key = "GROWTH" -> {"learn", "grow", "change", "understand", "realize"}

\* toLowerCase on one code unit
LowerUnit(c) ==
  CASE c = "A" -> "a" [] c = "B" -> "b" [] c = "C" -> "c" [] c = "D" -> "d"
    [] c = "E" -> "e" [] c = "F" -> "f" [] c = "G" -> "g" [] c = "H" -> "h"
    [] c = "I" -> "i" [] c = "J" -> "j" [] c = "K" -> "k" [] c = "L" -> "l"
    [] c = "M" -> "m" [] c = "N" -> "n" [] c = "O" -> "o" [] c = "P" -> "p"
    [] c = "Q" -> "q" [] c = "R" -> "r" [] c = "S" -> "s" [] c = "T" -> "t"
    [] c = "U" -> "u" [] c = "V" -> "v" [] c = "W" -> "w" [] c = "X" -> "x"
    [] c = "Y" -> "y" [] c = "Z" -> "z" [] OTHER -> c

\* messageText.toLowerCase()
RECURSIVE ToLowerCase(_)
ToLowerCase(s) ==
  IF s = "" THEN ""
  ELSE LowerUnit(SubSeq(s, 1, 1)) \o ToLowerCase(SubSeq(s, 2, Len(s)))

\* s.includes(keyword)
Includes(s, keyword) ==
  \E k \in 1..(Len(s) - Len(keyword) + 1) :
    SubSeq(s, k, k + Len(keyword) - 1) = keyword

\* texts.join(' ')
RECURSIVE JoinSpace(_)
JoinSpace(texts) ==
  IF texts = <<>> THEN ""
  ELSE IF Len(texts) = 1 THEN texts[1]
  ELSE texts[1] \o " " \o JoinSpace(Tail(texts))

\* the user texts: up to MaxWords words of the vocabulary
Vocabulary == {"hello", "Treasure", "MAGICAL", "robot", "unfunny", "42"}
Texts ==
  {""} \cup UNION {{JoinSpace(ws) : ws \in [1..n -> Vocabulary]} : n \in 1..MaxWords}

\* the entries of a content array: text parts, an image part, a text part
\* without text, and null
Parts ==
  {[type |-> "text", text |-> "robot"], [type |-> "text", text |-> "hello"],
   [type |-> "image_url"], [type |-> "text"], Null}
Contents == UNION {[1..n -> Parts] : n \in 0..MaxParts}

\* the values detectThemes is called with: a string, null, undefined, a number,
\* an array of parts, an object with or without an array content
ThemeInputs ==
  {[kind |-> "string", text |-> t] : t \in Texts}
    \cup {[kind |-> "null"], [kind |-> "undefined"], [kind |-> "number"],
          [kind |-> "object"]}
    \cup {[kind |-> "array", items |-> c] : c \in Contents}
    \cup {[kind |-> "object", content |-> c] : c \in Contents}

\* typeof userMessage
TypeOf(v) ==
  CASE v.kind = "string" -> "string"
    [] v.kind \in {"null", "array", "object"} -> "object"
    [] OTHER -> v.kind

\* Array.isArray(userMessage.content)
HasArrayContent(v) == v.kind = "object" /\ "content" \in DOMAIN v

\* item.text of a part; undefined joins as the empty string
PartText(item) == IF "text" \in DOMAIN item THEN item.text ELSE ""

RECURSIVE PartTexts(_)
PartTexts(content) ==
  IF content = <<>> THEN <<>>
  ELSE IF Head(content).type = "text"
    THEN <<PartText(Head(content))>> \o PartTexts(Tail(content))
  ELSE PartTexts(Tail(content))

\* item.type read on a null entry: TypeError
Throws(v) ==
  /\ TypeOf(v) = "object" /\ v.kind # "null"
  /\ HasArrayContent(v)
  /\ \E k \in 1..Len(v.content) : v.content[k] = Null

\* messageText
MessageText(v) ==
  IF TypeOf(v) = "string" THEN v.text
  ELSE IF TypeOf(v) = "object" /\ v.kind # "null" /\ HasArrayContent(v)
    THEN JoinSpace(PartTexts(v.content))
  ELSE ""

\* the registry's entries some keyword of which the lowercased text includes
Matching(messageText) ==
  SelectSeq(ThemeKeys,
            LAMBDA key : \E keyword \in Keywords(key) :
                           Includes(ToLowerCase(messageText), keyword))

ThemeEntry(key) == [type |-> key]

RECURSIVE ThemeEntries(_)
ThemeEntries(keys) ==
  IF keys = <<>> THEN <<>>
  ELSE <<ThemeEntry(Head(keys))>> \o ThemeEntries(Tail(keys))

\* Math.floor(Math.random() * themeKeys.length)
RandomIndexes == 0..(Len(ThemeKeys) - 1)

\* what detectThemes can return for a text
DetectThemesResults(messageText) ==
  IF Matching(messageText) = <<>>
  THEN {<<ThemeEntry(ThemeKeys[r + 1])>> : r \in RandomIndexes}
  ELSE {ThemeEntries(Matching(messageText))}

\* one call of detectThemes
DetectThemes ==
  /\ userMessage # Null /\ detected = Null
  /\ IF Throws(userMessage)
     THEN detected' = [threw |-> "TypeError"]
     ELSE \E themes \in DetectThemesResults(MessageText(userMessage)) :
            detected' = [returned |-> themes]
  /\ UNCHANGED <<userMessage, chatVars, workerVars, promptVars, emailVars>>

ThemeInit ==
  /\ Idle
  /\ EmptyStore
  /\ userMessage \in ThemeInputs
  /\ detected = Null

ThemeNext == DetectThemes

ThemeSpec == ThemeInit /\ [][ThemeNext]_vars

\* ------------------------------------------------- the worker of index.js
\* env.CF_MFW_API_KEY
CF_MFW_API_KEY == "test-api-key"
MAX_FILE_SIZE == 26214400

ApiKeys == {"", "wrong-key", "test-api-key"}
ContentTypes ==
  {"application/json", "multipart/form-data", "multipart/form-data; boundary=x"}

\* the request's headers, with and without X-API-Key
RequestHeaders ==
  {("Content-Type" :> ct) : ct \in ContentTypes}
    \cup {("Content-Type" :> ct) @@ ("X-API-Key" :> k) :
            ct \in ContentTypes, k \in ApiKeys}

Paths ==
  {"/transcribe", "/textual-chat", "/visual-chat", "/story", "/story/v0806",
   "/nowhere"}

\* the keys of the handlers table
Routes == {"/transcribe", "/textual-chat", "/visual-chat", "/story", "/story/v0806"}

\* the audio entry of a form: none, a small file, a file over the limit
AudioFiles == {<<>>, <<1>>, <<MAX_FILE_SIZE + 1>>}
WorkerBodies == Bodies \cup {[kind |-> "form", audio |-> a] : a \in AudioFiles}

WorkerRequests ==
  [headers : RequestHeaders, path : Paths, method : Methods, body : WorkerBodies]

ElevenLabsErrors == {<<"ElevenLabs: 401 - invalid_api_key">>}
TranscriptionErrors == {<<"OpenAI: 400 - bad audio">>}

\* mutant: only a wrong key is refused, a missing one passes
UnauthorizedWrongKeyOnly(req) ==
  /\ "X-API-Key" \in DOMAIN req.headers
  /\ req.headers["X-API-Key"] # CF_MFW_API_KEY

\* !apiKey || apiKey !== env.CF_MFW_API_KEY
Unauthorized(req) ==
  \/ "X-API-Key" \notin DOMAIN req.headers
  \/ req.headers["X-API-Key"] = ""
  \/ req.headers["X-API-Key"] # CF_MFW_API_KEY

\* the early returns shared by the three JSON handlers of index.js: the status,
\* or 0 when none applies
JsonEarlyReturn(req) ==
  IF req.method # "POST" THEN 405
  ELSE IF req.body.kind # "array" THEN 400
  ELSE IF Len(req.body.dialogHistory) = 0
          \/ req.body.dialogHistory[Len(req.body.dialogHistory)].role # "user"
    THEN 400
  ELSE 0

\* the early returns of handleTranscription before the form is read
TranscriptionEarlyReturn(req) ==
  IF req.method # "POST" THEN 400
  ELSE IF ~Includes(req.headers["Content-Type"], "multipart/form-data") THEN 400
  ELSE IF ~Includes(req.headers["Content-Type"], "boundary=") THEN 400
  ELSE 0

\* split('\n').filter(para => para.trim() !== '') of handleBedTimeStoryChat
StoryParagraphs(content) ==
  SelectSeq(Split(content), LAMBDA para : Trim(para) # <<>>)

\* Buffer.from(audioBuffer).toString('base64') of the audio of a paragraph
AudioBase64(text) == <<"base64", text>>

\* mutant: the body carries the history without the reply
ResponseBodyWithoutReply(h, audio) ==
  [dialogHistory |-> SubSeq(h, 1, Len(h) - 1), currentAudio |-> audio]

\* responseBody
ResponseBody(h, audio) == [dialogHistory |-> h, currentAudio |-> audio]

\* return new Response(text, { status })
WorkerReturn(status) ==
  /\ response' = [status |-> status]
  /\ pc' = "returned"

\* return new Response(JSON.stringify(responseBody), ...): status 200
StoryReturn(h, audio) ==
  /\ response' = [status |-> 200, contentType |-> "application/json",
                  body |-> ResponseBody(h, audio)]
  /\ pc' = "returned"

\* the for-loop of handleBedTimeStoryChat from paragraph k: the fetch of its
\* audio, or the response when none is left
StoryLoop(h, ps, k, audio) ==
  /\ i' = k
  /\ IF k < Len(ps)
     THEN /\ synthCalls' = Append(synthCalls, [text |-> ps[k + 1]])
          /\ pc' = "story-fetching"
          /\ UNCHANGED response
     ELSE /\ StoryReturn(h, audio)
          /\ UNCHANGED synthCalls

\* what the worker never touches
notWorker == <<user, pending, lines, writer, closeCalls, themeVars, promptVars,
              emailVars>>

\* fetch, whole: the key check, the dispatch and the handler up to its first
\* await of an upstream call
Fetch(req) ==
  /\ pc = "idle"
  /\ request' = req
  /\ IF Unauthorized(req)
     THEN /\ WorkerReturn(401)
          /\ UNCHANGED <<handler, dialogHistory, completionCalls, transcriptionCalls>>
     ELSE IF req.path \notin Routes
     THEN /\ WorkerReturn(404)
          /\ UNCHANGED <<handler, dialogHistory, completionCalls, transcriptionCalls>>
     ELSE /\ handler' = req.path
          /\ IF req.path = "/transcribe"
             THEN /\ UNCHANGED <<dialogHistory, completionCalls>>
                  /\ IF TranscriptionEarlyReturn(req) # 0
                     THEN WorkerReturn(TranscriptionEarlyReturn(req))
                            /\ UNCHANGED transcriptionCalls
                     ELSE IF req.body.kind # "form"
                     THEN WorkerReturn(500) /\ UNCHANGED transcriptionCalls
                     ELSE IF req.body.audio = <<>>
                             \/ req.body.audio[1] > MAX_FILE_SIZE
                     THEN WorkerReturn(400) /\ UNCHANGED transcriptionCalls
                     ELSE /\ transcriptionCalls' = transcriptionCalls + 1
                          /\ pc' = "transcribing"
                          /\ UNCHANGED response
             ELSE /\ UNCHANGED transcriptionCalls
                  /\ IF JsonEarlyReturn(req) # 0
                     THEN /\ WorkerReturn(JsonEarlyReturn(req))
                          /\ UNCHANGED <<dialogHistory, completionCalls>>
                     ELSE /\ dialogHistory' = req.body.dialogHistory
                          /\ completionCalls' = completionCalls + 1
                          /\ IF req.path = "/story"
                             THEN pc' = "story-completing" /\ UNCHANGED response
                             ELSE /\ pc' = "streaming"
                                  /\ response' = [status |-> 200]
  /\ UNCHANGED <<paragraphs, i, synthCalls, error, chatCompletion, audioSegments>>
  /\ UNCHANGED notWorker

\* openai.audio.transcriptions.create resolves
TranscriptionResolve ==
  /\ pc = "transcribing"
  /\ response' = [status |-> 200, contentType |-> "application/json"]
  /\ pc' = "returned"
  /\ UNCHANGED <<request, dialogHistory, paragraphs, i, completionCalls,
                 synthCalls, error, workerVars, notWorker>>

\* openai.audio.transcriptions.create rejects
TranscriptionReject(msg) ==
  /\ pc = "transcribing"
  /\ error' = msg
  /\ WorkerReturn(500)
  /\ UNCHANGED <<request, dialogHistory, paragraphs, i, completionCalls,
                 synthCalls, workerVars, notWorker>>

\* handleBedTimeStoryChat: the completion resolves, the reply is pushed and
\* split, the first audio is fetched
StoryCompletionResolve(content) ==
  /\ pc = "story-completing"
  /\ chatCompletion' = [role |-> "assistant", content |-> content]
  /\ dialogHistory' = Append(dialogHistory, chatCompletion')
  /\ paragraphs' = StoryParagraphs(content)
  /\ StoryLoop(dialogHistory', paragraphs', 0, <<>>)
  /\ UNCHANGED <<request, completionCalls, error, handler, audioSegments,
                 transcriptionCalls, notWorker>>

\* handleBedTimeStoryChat: the completion rejects
StoryCompletionReject(msg) ==
  /\ pc = "story-completing"
  /\ error' = msg
  /\ WorkerReturn(500)
  /\ UNCHANGED <<request, dialogHistory, paragraphs, i, completionCalls,
                 synthCalls, workerVars, notWorker>>

\* the ElevenLabs fetch answers ok: the segment is pushed, the loop goes on
StoryAudioOk ==
  /\ pc = "story-fetching"
  /\ audioSegments' = Append(audioSegments, AudioBase64(paragraphs[i + 1]))
  /\ StoryLoop(dialogHistory, paragraphs, i + 1, audioSegments')
  /\ UNCHANGED <<request, dialogHistory, paragraphs, completionCalls, error,
                 handler, chatCompletion, transcriptionCalls, notWorker>>

\* the ElevenLabs fetch answers not ok: the handler throws and answers 500
StoryAudioNotOk(msg) ==
  /\ pc = "story-fetching"
  /\ error' = msg
  /\ WorkerReturn(500)
  /\ UNCHANGED <<request, dialogHistory, paragraphs, i, completionCalls,
                 synthCalls, workerVars, notWorker>>

WorkerNext ==
  \/ \E req \in WorkerRequests : Fetch(req)
  \/ TranscriptionResolve
  \/ \E msg \in TranscriptionErrors : TranscriptionReject(msg)
  \/ \E content \in Replies : StoryCompletionResolve(content)
  \/ \E msg \in CompletionErrors : StoryCompletionReject(msg)
  \/ StoryAudioOk
  \/ \E msg \in ElevenLabsErrors : StoryAudioNotOk(msg)

WorkerSpec == Init /\ [][WorkerNext]_vars

\* ------------------------------------------------ handleEmailVerification
\* Number.prototype.toString of an attempt count
NumberToString(n) ==
  CASE n = 0 -> "0" [] n = 1 -> "1" [] n = 2 -> "2" [] n = 3 -> "3"
    [] n = 4 -> "4" [] n = 5 -> "5" [] n = 6 -> "6" [] n = 7 -> "7"
    [] n = 8 -> "8" [] n = 9 -> "9"

\* parseInt of a stored count
ParseInt(str) == CHOOSE n \in 0..9 : NumberToString(n) = str

\* /^[^\s@]+@[^\s@]+\.[^\s@]+$/.test(email)
EmailRegexTest(email) ==
  \E a \in 2..Len(email), d \in 2..(Len(email) - 1) :
    /\ SubSeq(email, a, a) = "@"
    /\ d > a + 1
    /\ SubSeq(email, d, d) = "."
    /\ \A k \in 1..Len(email) :
         k # a => SubSeq(email, k, k) \notin {"@", " ", "\n"}

\* env.VERIFICATION_CODES.get(key): the empty string stands for null
KvGet(key) == IF key \in DOMAIN kv THEN kv[key] ELSE ""

\* env.VERIFICATION_CODES.put(key, value)
KvPut(key, value) ==
  [k \in DOMAIN kv \cup {key} |-> IF k = key THEN value ELSE kv[k]]

\* the early returns of handleEmailVerification before the rate limit: the
\* status, or 0 when none applies
EmailEarlyReturn(req) ==
  IF req.method # "POST" THEN 405
  ELSE IF req.kind # "json" THEN 400
  ELSE IF req.email = "" \/ ~EmailRegexTest(req.email) THEN 422
  ELSE IF req.type \notin {"registration", "reset-pw"} THEN 422
  ELSE 0

\* the invocation p ends with a response of this status
Return(p, status) ==
  inv' = [inv EXCEPT ![p].pc = "done", ![p].status = status]

\* handleEmailVerification up to its first await in checkRateLimit
Receive(p, req) ==
  /\ inv[p].pc \in {"idle", "done"}
  /\ received < MaxRequests
  /\ received' = received + 1
  /\ inv' = [inv EXCEPT ![p] =
       IF EmailEarlyReturn(req) # 0
       THEN [IdleInvocation EXCEPT !.pc = "done", !.req = req,
                                   !.status = EmailEarlyReturn(req)]
       ELSE [IdleInvocation EXCEPT
               !.pc = "ratelimit-get", !.req = req,
               !.arrivedAt =
                 IF KvGet(RateLimitKey(req.email, req.type)) = "" THEN 0
                 ELSE ParseInt(KvGet(RateLimitKey(req.email, req.type)))]]
  /\ UNCHANGED <<kv, passed>>
  /\ UNCHANGED <<chatVars, themeVars, workerVars, promptVars>>

\* checkRateLimit: the get resolves; at 5 attempts the answer is 429
RateLimitGet(p) ==
  /\ inv[p].pc = "ratelimit-get"
  /\ LET currentAttempts == KvGet(RateLimitKey(inv[p].req.email, inv[p].req.type))
     IN  IF currentAttempts # "" /\ ParseInt(currentAttempts) >= 5
         THEN Return(p, 429)
         ELSE inv' = [inv EXCEPT ![p].pc = "ratelimit-put",
                                 ![p].currentAttempts = currentAttempts]
  /\ UNCHANGED <<kv, passed, received>>
  /\ UNCHANGED <<chatVars, themeVars, workerVars, promptVars>>

\* checkRateLimit: the put of attempts + 1 (or of "1") resolves and true is
\* returned
RateLimitPut(p) ==
  /\ inv[p].pc = "ratelimit-put"
  /\ LET key == RateLimitKey(inv[p].req.email, inv[p].req.type) IN
       /\ kv' = KvPut(key,
                      IF inv[p].currentAttempts # ""
                      THEN NumberToString(ParseInt(inv[p].currentAttempts) + 1)
                      ELSE "1")
       /\ passed' = [passed EXCEPT ![key] = @ + 1]
  /\ inv' = [inv EXCEPT ![p].pc = "get-user"]
  /\ UNCHANGED received
  /\ UNCHANGED <<chatVars, themeVars, workerVars, promptVars>>

\* getUserByEmail resolves: 409 for a registration of a registered email, 404
\* for type 'reset' without a user, else the code is generated and its put issued
GetUser(p) ==
  /\ inv[p].pc = "get-user"
  /\ LET existingUser == inv[p].req.email \in Registered IN
       IF inv[p].req.type = "registration" /\ existingUser THEN Return(p, 409)
       ELSE IF inv[p].req.type = "reset" /\ ~existingUser THEN Return(p, 404)
       ELSE inv' = [inv EXCEPT ![p].pc = "store-code"]
  /\ UNCHANGED <<kv, passed, received>>
  /\ UNCHANGED <<chatVars, themeVars, workerVars, promptVars>>

\* the put of the verification code resolves and the email is handed to Resend
StoreCode(p, code) ==
  /\ inv[p].pc = "store-code"
  /\ kv' = KvPut(CodeKey(inv[p].req.email, inv[p].req.type), code)
  /\ inv' = [inv EXCEPT ![p].pc = "send", ![p].stored = TRUE]
  /\ UNCHANGED <<passed, received>>
  /\ UNCHANGED <<chatVars, themeVars, workerVars, promptVars>>

\* resend.emails.send answers without error
SendResolve(p) ==
  /\ inv[p].pc = "send"
  /\ inv' = [inv EXCEPT ![p].pc = "done", ![p].status = 200, ![p].sent = TRUE]
  /\ UNCHANGED <<kv, passed, received>>
  /\ UNCHANGED <<chatVars, themeVars, workerVars, promptVars>>

\* resend.emails.send answers with an error: the catch block answers 500
SendReject(p) ==
  /\ inv[p].pc = "send"
  /\ Return(p, 500)
  /\ UNCHANGED <<kv, passed, received>>
  /\ UNCHANGED <<chatVars, themeVars, workerVars, promptVars>>

EmailNext ==
  \/ \E p \in Slots, req \in EmailRequests : Receive(p, req)
  \/ \E p \in Slots : RateLimitGet(p)
  \/ \E p \in Slots : RateLimitPut(p)
  \/ \E p \in Slots : GetUser(p)
  \/ \E p \in Slots, code \in VerificationCodes : StoreCode(p, code)
  \/ \E p \in Slots : SendResolve(p)
  \/ \E p \in Slots : SendReject(p)

\* the store after n earlier requests for one pair, made one after the other
\* and answered: the pair's count is n, and its code is there unless the
\* requests were answered 409
StoreAfter(email, type, n) ==
  IF type = "registration" /\ email \in Registered
  THEN [k \in {RateLimitKey(email, type)} |-> NumberToString(n)]
  ELSE [k \in {RateLimitKey(email, type), CodeKey(email, type)} |->
          IF k = RateLimitKey(email, type) THEN NumberToString(n) ELSE "1000"]

EmailInit ==
  /\ Idle
  /\ userMessage = Null
  /\ detected = Null
  /\ \/ EmptyStore
     \/ \E email \in {"kid@example.com", "new@example.com"},
           type \in {"registration", "reset-pw"}, n \in 1..5 :
          /\ kv = StoreAfter(email, type, n)
          /\ passed = [k \in RateLimitKeys |->
                         IF k = RateLimitKey(email, type) THEN n ELSE 0]

\* one expiry window: no key of the store expires
EmailSpec == EmailInit /\ [][EmailNext]_vars

\* ------------------------------------- the system prompt and the messages
\* the last message's content here is a value as detectThemes reads it: a
\* string, or an array of content parts

\* offsets (in hours east of UTC) of the time zone the runtime runs in, which
\* getHours answers in
RuntimeZones == {0, 8}

\* current_time parameters: absent, unparsable, with an offset, with Z, and
\* without a zone (which Date.parse reads as local time)
PromptTimes ==
  {"", "tomorrow", "2022-02-22T22:22:22+08:00", "2022-02-22T07:30:00-05:00",
   "2022-02-22T03:00:00Z", "2022-02-22T21:00:00"}

PromptUserContents ==
  {[kind |-> "string", text |-> "robot"],
   [kind |-> "string", text |-> "hello"],
   [kind |-> "array",
    items |-> <<[type |-> "text", text |-> "robot"], [type |-> "image_url"]>>],
   [kind |-> "array", items |-> <<[type |-> "text", text |-> "hello"]>>]}

PromptUserMsgs == {[role |-> "user", content |-> c] : c \in PromptUserContents}
PromptAsstMsg ==
  [role |-> "assistant", content |-> [kind |-> "string", text |-> "hello"]]

PromptHistories ==
  {<<>>, <<PromptAsstMsg>>}
    \cup {<<m>> : m \in PromptUserMsgs}
    \cup {<<m, PromptAsstMsg, m>> :
            m \in {n \in PromptUserMsgs : n.content.kind = "array"}}

\* isVisual: the route the request came on (handleVisualChat or
\* handleTextualChat); zone: the runtime's time zone
PromptRequests ==
  [method : {"POST"}, year : Years,
   user : {[yob |-> 2018, preferred_voice |-> "nova"]},
   query_type : {"", "story"}, current_time : PromptTimes,
   visual_task : {"", "Plants"},
   body : {[kind |-> "array", dialogHistory |-> h] : h \in PromptHistories},
   isVisual : BOOLEAN, zone : RuntimeZones]

\* the assistant's reply of these runs
PromptReplies == {<<Letter>>}

DigitValue(c) ==
  CASE c = "0" -> 0 [] c = "1" -> 1 [] c = "2" -> 2 [] c = "3" -> 3
    [] c = "4" -> 4 [] c = "5" -> 5 [] c = "6" -> 6 [] c = "7" -> 7
    [] c = "8" -> 8 [] c = "9" -> 9

\* the number two digits at position k of a timestamp denote
TwoDigits(t, k) ==
  10 * DigitValue(SubSeq(t, k, k)) + DigitValue(SubSeq(t, k + 1, k + 1))

\* the hour field HH of YYYY-MM-DDTHH:mm:ss
HourField(t) == TwoDigits(t, 12)

\* the offset (in hours east of UTC) the timestamp is read in: its own when it
\* carries one, UTC for Z, the runtime's zone when it carries none
OffsetOf(t, zone) ==
  IF Len(t) = 19 THEN zone
  ELSE IF SubSeq(t, 20, 20) = "Z" THEN 0
  ELSE IF SubSeq(t, 20, 20) = "-" THEN 0 - TwoDigits(t, 21)
  ELSE TwoDigits(t, 21)

\* new Date(currentLocalTime).getHours(): the hour of that instant in the
\* runtime's zone (the offsets here are whole hours)
GetHours(t, zone) == (HourField(t) - OffsetOf(t, zone) + zone + 24) % 24

NightClause ==
  "As it's evening/night time, conclude with a calming, sleep-appropriate ending."
DayClause == "Conclude with an energetic, day-appropriate ending."

\* theme.prompts.storyPrompt or theme.prompts.qnaPrompt (the registry's text
\* is stood for by its place in the registry)
ThemePrompt(theme, isStory) ==
  theme.type \o (IF isStory THEN ".prompts.storyPrompt" ELSE ".prompts.qnaPrompt")

\* the prompt as the sequence of its lines; zone is the runtime's time zone
generateSystemPrompt(user_age, currentLocalTime, isVisual, visualTask, detectedThemes, queryType, zone) ==
  LET isStory == queryType = "story"
      persona ==
        <<"You are POPO, a "
            \o (IF isStory THEN "creative storyteller" ELSE "knowledgeable educator")
            \o " for a " \o NumberToString(user_age) \o "-year-old audience.">>
      themes ==
        [k \in 1..Len(detectedThemes) |-> ThemePrompt(detectedThemes[k], isStory)]
      craft == IF isStory THEN <<"When crafting your story:">> ELSE <<"">>
      time ==
        IF currentLocalTime # ""
        THEN <<"Current local time: " \o currentLocalTime>>
        ELSE <<"">>
      visual ==
        IF isVisual
        THEN <<"Based on the provided image"
                 \o (IF visualTask # "" THEN " related to " \o visualTask ELSE "")
                 \o ".">>
        ELSE <<>>
      tone ==
        IF isStory /\ currentLocalTime # ""
        THEN IF GetHours(currentLocalTime, zone) >= 19
                \/ GetHours(currentLocalTime, zone) < 6
             THEN <<NightClause>>
             ELSE <<DayClause>>
        ELSE <<>>
  IN persona \o themes \o craft \o time \o visual \o tone

\* mutant: a welcome message of the assistant put before the history
MessagesWithWelcome(systemPrompt, h) ==
  <<[role |-> "system", content |-> systemPrompt],
    [role |-> "assistant", content |-> [kind |-> "string", text |-> "hello"]]>>
    \o h

\* [{ role: 'system', content: systemPrompt }, ...dialogHistory]
Messages(systemPrompt, h) == <<[role |-> "system", content |-> systemPrompt]>> \o h

\* handleChat up to the start of streamResponse, with the themes detected and
\* the messages composed
HandleChatComposing(req, isVisual) ==
  /\ pc = "idle"
  /\ request' = req
  /\ IF EarlyReturn(req) # Null
     THEN /\ response' = EarlyReturn(req)
          /\ pc' = "returned"
          /\ UNCHANGED <<user, dialogHistory, writer, completionCalls,
                         userMessage, detected, messages>>
     ELSE LET h == req.body.dialogHistory
              lastMessage == h[Len(h)]
          IN /\ user' = req.user
             /\ dialogHistory' = h
             /\ userMessage' = lastMessage.content
             /\ \E themes \in DetectThemesResults(MessageText(lastMessage.content)) :
                  /\ detected' = [returned |-> themes]
                  /\ messages' =
                       Messages(generateSystemPrompt(req.year - req.user.yob,
                                                     req.current_time, isVisual,
                                                     req.visual_task, themes,
                                                     QueryType(req), req.zone),
                                h)
             /\ writer' = "open"
             /\ completionCalls' = completionCalls + 1
             /\ pc' = "generating"
             /\ response' = Resp(200, "application/json")
  /\ UNCHANGED <<paragraphs, i, pending, lines, synthCalls, closeCalls, error>>
  /\ UNCHANGED <<workerVars, emailVars>>

handleTextualChat(req) == ~req.isVisual /\ HandleChatComposing(req, FALSE)

handleVisualChat(req) == req.isVisual /\ HandleChatComposing(req, TRUE)

PromptNext ==
  \/ \E req \in PromptRequests : handleTextualChat(req)
  \/ \E req \in PromptRequests : handleVisualChat(req)
  \/ \E content \in PromptReplies : GenerationResolve(content)
  \/ \E msg \in CompletionErrors : GenerationReject(msg)
  \/ SynthResolve
  \/ \E msg \in SynthErrors : SynthReject(msg)
  \/ WriteResolve
  \/ WriteReject
  \/ ErrWriteResolve
  \/ ErrWriteReject
  \/ CloseSettle
  \/ ConsumerCancel

PromptSpec == Init /\ [][PromptNext]_vars

\* ------------------------------------------------------- reading a stream
IsErrorRecord(r) == r.currentParagraph = Null
IsProgressRecord(r) == r.currentParagraph # Null

ErrorPositions == {k \in 1..Len(lines) : IsErrorRecord(lines[k])}
ProgressPositions == {k \in 1..Len(lines) : IsProgressRecord(lines[k])}

\* the history the caller sent
CallerHistory == request.body.dialogHistory

Started == request # Null
Opened == writer # "none"
\* the completion call raised: an error was caught and nothing was pushed
CompletionRaised == error # NoError /\ dialogHistory = CallerHistory
\* an exception was raised after the reply arrived
EmittingRaised == error # NoError /\ dialogHistory # CallerHistory

NoStreamNoCalls == writer = "none" /\ completionCalls = 0 /\ synthCalls = <<>>

HistoryRejectable ==
  /\ Started
  /\ request.body.kind = "array"
  /\ \/ Len(CallerHistory) = 0
     \/ CallerHistory[Len(CallerHistory)].role # "user"

\* -------------------------------------------------------------------- C1
\* C1 as stated: every request whose dialogHistory is an empty array or ends in
\* a message whose role is not 'user' is answered 400, with no stream opened
\* and no completion or synthesis call.
C1_AlwaysStatus400 ==
  HistoryRejectable => response.status = 400 /\ NoStreamNoCalls

\* C1 amended: such a request is answered with a 4xx and opens no stream and
\* makes no completion or synthesis call; the status is 400 whenever the method
\* is POST and the caller's user row exists, and otherwise that of the earlier
\* check that fails (405 for the method, 404 for the user).
C1_BadHistoryRejected ==
  HistoryRejectable =>
    /\ NoStreamNoCalls
    /\ pc = "returned"
    /\ response.status \in {400, 404, 405}
    /\ (request.method = "POST" /\ request.user # Null => response.status = 400)
    /\ (request.method # "POST" => response.status = 405)
    /\ (request.method = "POST" /\ request.user = Null => response.status = 404)

\* a request that passes every earlier check and ends in an assistant message
C1_Witness ==
  /\ HistoryRejectable
  /\ request.method = "POST" /\ request.user # Null
  /\ request.year - request.user.yob >= 0
  /\ request.query_type = "story"
  /\ request.current_time \in ParsableTimes
  /\ request.visual_task = "Plants"
  /\ Len(CallerHistory) = 2
  /\ response.status = 400

\* -------------------------------------------------------------------- C2
\* C2: once the output stream has been opened, the finalizer's writer.close()
\* is eventually called and settles, on every path of streamResponse (success,
\* zero paragraphs, completion failure, synthesis failure, and a rejected write
\* of the error record).
C2_EventuallyClosed == Opened ~> (closeCalls = 1 /\ pc = "done")

\* the write of the error record was rejected and the close was called all the same
C2_Witness ==
  /\ pc = "done" /\ closeCalls = 1
  /\ writer = "errored"
  /\ error # NoError
  /\ ErrorPositions = {}

\* -------------------------------------------------------------------- C3
\* C3 as stated: when the completion call raises, the response is 200 and the
\* finished stream is exactly one line, the error record with the raised
\* message and the caller's history; no synthesis call, no progress record.
C3_ExactlyOneErrorLine ==
  CompletionRaised /\ pc = "done" =>
    /\ response.status = 200
    /\ lines = <<[dialogHistory |-> CallerHistory, currentParagraph |-> Null,
                  error |-> error]>>
    /\ synthCalls = <<>>

\* C3 amended: when the completion call raises, the response is 200, no
\* synthesis call is made and no progress record is written; the stream holds
\* at most one line, the error record with the raised message and the caller's
\* history, and it holds exactly that line unless the stream rejected the write
\* (the consumer had gone away), in which case it holds none.
C3_CompletionFailure ==
  CompletionRaised =>
    /\ response.status = 200
    /\ error \in CompletionErrors
    /\ synthCalls = <<>>
    /\ ProgressPositions = {}
    /\ Len(lines) <= 1
    /\ \A k \in 1..Len(lines) :
         lines[k] = [dialogHistory |-> CallerHistory, currentParagraph |-> Null,
                     error |-> error]
    /\ (pc \in {"closing", "done"} /\ writer # "errored" => Len(lines) = 1)
    /\ (pc \in {"closing", "done"} /\ writer = "errored" => Len(lines) = 0)

C3_Witness ==
  /\ CompletionRaised
  /\ pc = "done"
  /\ Len(lines) = 1
  /\ lines[1].error = <<"Connection error.">>
  /\ Len(CallerHistory) = 3

\* ------------------------------------------------ reading the reply back
\* the reply the completion answered with (once it has been pushed)
ReplyArrived == Opened /\ Len(dialogHistory) = Len(CallerHistory) + 1
ReplyContent == dialogHistory[Len(dialogHistory)].content
WithinLimit(text) == Length(text) <= 4096

\* the 0-based positions, in the segmenter's output, of the paragraphs the
\* synthesizer accepts, in order
RECURSIVE WithinLimitFrom(_, _)
WithinLimitFrom(ps, k) ==
  IF k >= Len(ps) THEN <<>>
  ELSE (IF WithinLimit(ps[k + 1]) THEN <<k>> ELSE <<>>) \o WithinLimitFrom(ps, k + 1)

Survivors == Segment(ReplyContent)
Speakable == WithinLimitFrom(Survivors, 0)

SynthErrorMessages == {<<"OpenAI TTS: ">> \o m : m \in SynthErrors}
Finished == pc \in {"closing", "done"}

\* -------------------------------------------------------------------- C4
\* C4 as stated: after an exception while emitting (a synthesis call or a
\* stream write failing) the finished stream holds exactly one terminal record,
\* with currentParagraph null, the error's message and the cumulative history.
C4_ExactlyOneTerminalRecord ==
  EmittingRaised /\ pc = "done" =>
    /\ Cardinality(ErrorPositions) = 1
    /\ lines[Len(lines)] = [dialogHistory |-> dialogHistory,
                            currentParagraph |-> Null, error |-> error]

C4_TerminalRecord ==
  EmittingRaised =>
    /\ error \in SynthErrorMessages \cup {CancelReason}
    /\ Cardinality(ErrorPositions) <= 1
    /\ \A k \in ErrorPositions :
         /\ k = Len(lines)
         /\ lines[k] = [dialogHistory |-> dialogHistory,
                        currentParagraph |-> Null, error |-> error]
    /\ ReplyArrived
    /\ (pc = "errwriting" =>
          pending = [dialogHistory |-> dialogHistory,
                     currentParagraph |-> Null, error |-> error])
    /\ (Finished /\ writer # "errored" => Cardinality(ErrorPositions) = 1)
    /\ (Finished /\ writer = "errored" => ErrorPositions = {})
    /\ (error = CancelReason => ErrorPositions = {})

C4_NothingAfterFailure ==
  error # NoError => synthCalls' = synthCalls /\ ProgressPositions' = ProgressPositions

\* C4 amended: after an exception while emitting, one write of a terminal record
\* (currentParagraph null, the error's message, the cumulative history) is
\* attempted and at most one such record is in the stream, as its last line:
\* exactly one when the stream still accepts writes, none when the stream
\* rejects it (always so when the exception was itself a rejected write); no
\* paragraph is synthesized or written after the exception.
C4_EmittingFailure == [](C4_TerminalRecord) /\ [][C4_NothingAfterFailure]_vars

\* a synthesis failure on the second paragraph, reported after one progress record
C4_Witness ==
  /\ EmittingRaised /\ pc = "done"
  /\ error \in SynthErrorMessages
  /\ Len(lines) = 2 /\ Len(paragraphs) = 2
  /\ IsProgressRecord(lines[1]) /\ IsErrorRecord(lines[2])
  /\ lines[2].error = error

\* -------------------------------------------------------------------- C5
\* C5 as stated: in a successful run the i-th progress record carries index i,
\* also when the reply holds paragraphs longer than 4096 characters.
C5_IndexEqualsPosition ==
  pc = "done" /\ error = NoError =>
    \A k \in 1..Len(lines) : lines[k].currentParagraph.index = k - 1

\* C5 amended: the i-th progress record carries the position, in the
\* segmenter's output, of the i-th paragraph of at most 4096 characters: a
\* skipped paragraph keeps its position, so the index is i plus the number of
\* longer paragraphs before it, and equals i when the reply has no paragraph
\* longer than 4096 characters.
C5_IndexIsSegmentPosition ==
  \A k \in ProgressPositions :
    /\ k <= Len(Speakable)
    /\ lines[k].currentParagraph.index = Speakable[k]
    /\ ((\A n \in 1..Len(Survivors) : WithinLimit(Survivors[n]))
          => lines[k].currentParagraph.index = k - 1)

\* a successful run whose first paragraph was skipped: the first record has index 1
C5_Witness ==
  /\ pc = "done" /\ error = NoError
  /\ Len(lines) = 1
  /\ lines[1].currentParagraph.index = 1
  /\ ~WithinLimit(Survivors[1])

\* -------------------------------------------------------------------- C6
\* C6: the index values of successive progress records of one stream are
\* strictly increasing.
C6_IndexStrictlyIncreasing ==
  \A a, b \in ProgressPositions :
    a < b => lines[a].currentParagraph.index < lines[b].currentParagraph.index

C6_Witness ==
  /\ Cardinality(ProgressPositions) = 2
  /\ lines[1].currentParagraph.index = 0
  /\ lines[2].currentParagraph.index = 1

\* -------------------------------------------------------------------- C7
\* C7: a paragraph longer than 4096 characters is never handed to the
\* synthesizer and is in no record; skipping raises no error, and in a run
\* where no call fails every paragraph of at most 4096 characters (one of
\* exactly 4096 included) is synthesized and written, in order.
C7_OversizedSkipped ==
  /\ \A n \in 1..Len(synthCalls) : WithinLimit(synthCalls[n].text)
  /\ \A k \in ProgressPositions : WithinLimit(lines[k].currentParagraph.text)
  /\ (error # NoError =>
        error \in CompletionErrors \cup SynthErrorMessages \cup {CancelReason})
  /\ (Finished /\ error = NoError /\ ReplyArrived =>
        /\ ErrorPositions = {}
        /\ Len(lines) = Len(Speakable)
        /\ Len(synthCalls) = Len(Speakable)
        /\ \A k \in 1..Len(lines) :
             /\ lines[k].currentParagraph.text = Survivors[Speakable[k] + 1]
             /\ synthCalls[k].text = Survivors[Speakable[k] + 1])

\* a 4097-character paragraph skipped, the 4096-character one after it written
C7_Witness ==
  /\ pc = "done" /\ error = NoError
  /\ Len(Survivors) = 2
  /\ Length(Survivors[1]) = 4097
  /\ Length(Survivors[2]) = 4096
  /\ Len(lines) = 1
  /\ lines[1].currentParagraph.text = Survivors[2]

\* -------------------------------------------------------------------- C8
\* C8: the assistant's message is appended once, before the first record, so
\* every progress record's dialogHistory is the caller's history followed by
\* exactly one assistant message.
C8_HistoryPlusOneReply ==
  /\ (Opened => Len(dialogHistory) \in {Len(CallerHistory), Len(CallerHistory) + 1})
  /\ (pc \in {"synthesizing", "writing"} => ReplyArrived)
  /\ \A k \in ProgressPositions :
       LET h == lines[k].dialogHistory IN
         /\ Len(h) = Len(CallerHistory) + 1
         /\ SubSeq(h, 1, Len(CallerHistory)) = CallerHistory
         /\ h[Len(h)].role = "assistant"
         /\ Segment(h[Len(h)].content) = paragraphs
         /\ h = dialogHistory

C8_Witness ==
  /\ Cardinality(ProgressPositions) = 2
  /\ Len(CallerHistory) = 3
  /\ Len(lines[1].dialogHistory) = 4
  /\ lines[1].dialogHistory[4].role = "assistant"

\* -------------------------------------------------------------------- C9
\* C9: across the records of one stream the length of dialogHistory never
\* decreases, and a record after one that carries the reply carries it too.
C9_HistoryMonotone ==
  \A a, b \in 1..Len(lines) :
    a < b =>
      /\ Len(lines[a].dialogHistory) <= Len(lines[b].dialogHistory)
      /\ (Len(lines[a].dialogHistory) = Len(CallerHistory) + 1
            => lines[b].dialogHistory = lines[a].dialogHistory)

\* an error record that follows a progress record and carries the reply
C9_Witness ==
  /\ Len(lines) = 2
  /\ IsProgressRecord(lines[1]) /\ IsErrorRecord(lines[2])
  /\ Len(lines[2].dialogHistory) = Len(CallerHistory) + 1
  /\ Len(CallerHistory) = 1

\* ------------------------------------------------------------------- C10
\* C10: a stream holds at most one error record, and an error record is the
\* last record of its stream.
C10_ErrorRecordLast ==
  /\ Cardinality(ErrorPositions) <= 1
  /\ \A k \in ErrorPositions : k = Len(lines)

\* an error record written, and the stream closed, after a progress record
C10_Witness ==
  /\ writer = "closed"
  /\ ErrorPositions = {2}
  /\ ProgressPositions = {1}

\* ------------------------------------------------------------------- C11
\* the reply holds no letter and no digit: only blank, whitespace-only or
\* alphanumeric-free lines
NoAlnumInReply == \A k \in 1..Len(ReplyContent) : ReplyContent[k] \notin {"a", "A"}

\* C11: when the reply segments to zero paragraphs the finalizer closes the
\* stream at once, with zero progress records and no error record, and the
\* synthesizer is never called.
C11_EmptyReplyClosesCleanly ==
  ReplyArrived /\ NoAlnumInReply =>
    /\ paragraphs = <<>>
    /\ synthCalls = <<>>
    /\ lines = <<>> /\ pending = Null
    /\ error = NoError
    /\ Finished /\ closeCalls = 1
    /\ writer \in {"closed", "errored"}

\* a reply of a whitespace-only line and a punctuation-only line, closed
C11_Witness ==
  /\ ReplyArrived /\ pc = "done" /\ writer = "closed"
  /\ ReplyContent = <<" ", "\n", ".">>
  /\ lines = <<>>

\* ------------------------------------------------------------------- C12
ValidationFailure ==
  /\ Started
  /\ \/ request.method # "POST"
     \/ request.body.kind # "array"
     \/ request.query_type \notin {"", "story", "qna"}
     \/ request.current_time \notin {"", "2022-02-22T22:22:22+08:00"}
     \/ request.visual_task \notin
          {"", "Micro", "Plants", "Animals", "Insects", "Daily", "Translation"}

\* C12: a request that fails a validation of handleChat (method, body,
\* query_type, current_time, visual_task) is answered at once with a 4xx, opens
\* no stream and makes no completion or synthesis call.
C12_ValidationRejects ==
  ValidationFailure =>
    /\ pc = "returned"
    /\ response.status \in 400..499
    /\ (request.method # "POST" => response.status = 405)
    /\ NoStreamNoCalls
    /\ lines = <<>> /\ closeCalls = 0

\* everything valid but the visual_task
C12_Witness ==
  /\ ValidationFailure
  /\ request.method = "POST" /\ request.user # Null
  /\ request.year - request.user.yob >= 0
  /\ request.query_type = "qna" /\ request.current_time = ""
  /\ request.visual_task = "Cars"
  /\ request.body.kind = "array" /\ Len(CallerHistory) = 1
  /\ CallerHistory[1].role = "user"
  /\ response.status = 400

\* ------------------------------------------------------------------- C13
ValidRequest ==
  /\ Started
  /\ request.method = "POST"
  /\ request.user # Null
  /\ request.year - request.user.yob >= 0
  /\ request.query_type \in {"", "story", "qna"}
  /\ request.current_time \in {"", "2022-02-22T22:22:22+08:00"}
  /\ request.visual_task \in
       {"", "Micro", "Plants", "Animals", "Insects", "Daily", "Translation"}
  /\ request.body.kind = "array"
  /\ Len(CallerHistory) > 0
  /\ CallerHistory[Len(CallerHistory)].role = "user"

C16_SegmentStable ==
  ReplyArrived =>
    Segment(JoinLines(Segment(ReplyContent))) = Segment(ReplyContent)

\* a reply of two kept lines
C16_Witness ==
  /\ ReplyArrived
  /\ ReplyContent = <<"a", "\n", "A", "a">>
  /\ Len(paragraphs) = 2

\* ------------------------------------------------------------------- C19
\* C19: no synthesis call is in flight while a write is pending, and the
\* synthesis calls are never more than one ahead of the records the stream has
\* accepted: one record at most is outstanding.
C19_Backpressure ==
  /\ (pc = "synthesizing" => pending = Null)
  /\ (pc = "writing" =>
        /\ pending # Null
        /\ pending.currentParagraph.index = i
        /\ Len(synthCalls) = Cardinality(ProgressPositions) + 1)
  /\ Len(synthCalls) <= Cardinality(ProgressPositions) + 1

\* the second record's write pending: two synthesis calls, one record accepted
C19_Witness ==
  /\ pc = "writing" /\ writer = "open"
  /\ Len(lines) = 1
  /\ Len(synthCalls) = 2
  /\ pending.currentParagraph.index = 1

\* ------------------------------------------------------------------- C20
\* C20: an invocation that opens a stream makes exactly one completion call,
\* whatever follows (failure, any number of paragraphs); one rejected at
\* validation makes none.
C20_OneCompletionCall ==
  /\ (Opened => completionCalls = 1)
  /\ (~Opened => completionCalls = 0)

\* a failed completion, not called again, and two paragraphs after one call
C20_Witness ==
  /\ pc = "done"
  /\ completionCalls = 1
  /\ \/ CompletionRaised
     \/ Len(lines) = 2

\* ------------------------------------------------------------------- C14
RegistryKeys ==
  {"ADVENTURE", "FAMILY", "FRIENDSHIP", "MAGIC", "SCIFI", "COMEDY", "GROWTH"}

\* the call returned a non-empty list of registry entries, a single one where
\* no keyword matches
ReturnedThemes ==
  /\ "returned" \in DOMAIN detected
  /\ Len(detected.returned) >= 1
  /\ \A k \in 1..Len(detected.returned) : detected.returned[k].type \in RegistryKeys
  /\ (Matching(MessageText(userMessage)) = <<>> => Len(detected.returned) = 1)

\* C14: detectThemes is total and never returns an empty list: for every input
\* (a string, the empty string, a structured content value) it returns at
\* least one entry, every entry a key of THEMES, and exactly one entry when no
\* keyword matches.
C14_DetectThemesTotal == detected # Null => ReturnedThemes

\* what holds of the code: the same for every input but an object whose
\* content array has a null entry
C14_TotalButNullEntry ==
  detected # Null =>
    IF /\ userMessage.kind = "object" /\ "content" \in DOMAIN userMessage
       /\ \E k \in 1..Len(userMessage.content) : userMessage.content[k] = Null
    THEN detected = [threw |-> "TypeError"]
    ELSE ReturnedThemes

\* two themes detected in one text, in the registry's order
C14_Witness ==
  /\ userMessage = [kind |-> "string", text |-> "robot Treasure"]
  /\ detected = [returned |-> <<[type |-> "ADVENTURE"], [type |-> "SCIFI"]>>]

\* ------------------------------------------------------------------- C17
\* the request carries no X-API-Key or one that is not the configured key
KeyRefused ==
  /\ Started
  /\ \/ "X-API-Key" \notin DOMAIN request.headers
     \/ request.headers["X-API-Key"] # "test-api-key"

\* C17: the worker's fetch answers 401 to every request whose X-API-Key is
\* missing or differs from the configured key, whatever the path; no route
\* handler runs and no completion, synthesis or transcription call is made.
C17_UnauthorizedRejected ==
  KeyRefused =>
    /\ pc = "returned"
    /\ response = [status |-> 401]
    /\ handler = "none"
    /\ completionCalls = 0 /\ synthCalls = <<>> /\ transcriptionCalls = 0

\* a request without the header that /story would otherwise have served
C17_Witness ==
  /\ Started
  /\ "X-API-Key" \notin DOMAIN request.headers
  /\ request.path = "/story" /\ request.method = "POST"
  /\ request.body.kind = "array" /\ request.body.dialogHistory = <<UserMsg>>
  /\ response.status = 401

\* ------------------------------------------------------------------- C18
\* /story served a history ending in a user message, the completion and every
\* audio call succeeded
StorySucceeded ==
  /\ handler = "/story" /\ pc = "returned"
  /\ request.method = "POST" /\ request.body.kind = "array"
  /\ Len(CallerHistory) > 0
  /\ CallerHistory[Len(CallerHistory)].role = "user"
  /\ chatCompletion # Null
  /\ error = NoError

\* C18: handleBedTimeStoryChat answers such a request with 200, and the
\* dialogHistory of the body is the request's history followed by exactly one
\* message, the assistant's reply.
C18_StoryHistoryPlusReply ==
  StorySucceeded =>
    /\ response.status = 200
    /\ Len(response.body.dialogHistory) = Len(CallerHistory) + 1
    /\ SubSeq(response.body.dialogHistory, 1, Len(CallerHistory)) = CallerHistory
    /\ response.body.dialogHistory[Len(CallerHistory) + 1] = chatCompletion
    /\ chatCompletion.role = "assistant"
    /\ Len(response.body.currentAudio) = Len(synthCalls)

\* a reply of two paragraphs, both with audio, after a history of three
C18_Witness ==
  /\ StorySucceeded
  /\ Len(CallerHistory) = 3
  /\ Len(response.body.currentAudio) = 2
  /\ response.status = 200

\* ------------------------------------------------------------------- C21
\* the reference segmenter: the units between the newlines of a text
Breaks(s) == {0} \cup {k \in 1..Len(s) : s[k] = "\n"} \cup {Len(s) + 1}

RECURSIVE RefUnitsFrom(_, _)
RefUnitsFrom(s, a) ==
  LET b == CHOOSE x \in Breaks(s) : x > a /\ \A y \in Breaks(s) : y > a => x <= y
  IN  <<SubSeq(s, a + 1, b - 1)>>
        \o (IF b = Len(s) + 1 THEN <<>> ELSE RefUnitsFrom(s, b))

\* a unit with something but whitespace in it and with a letter or digit
RefKeeps(u) ==
  /\ \E k \in 1..Len(u) : u[k] \notin {" ", "\n"}
  /\ \E k \in 1..Len(u) : u[k] \in {"a", "A"}

RefKept(s) == SelectSeq(RefUnitsFrom(s, 0), RefKeeps)

\* C21: the paragraphs are the newline-separated units of the reply that are
\* non-empty after trimming and hold a letter or digit, in their order, and the
\* index of a record is the position of its text among those kept units.
C21_SegmenterIsReference ==
  ReplyArrived =>
    /\ paragraphs = RefKept(ReplyContent)
    /\ \A k \in ProgressPositions :
         LET r == lines[k].currentParagraph IN
           /\ r.index \in 0..(Len(RefKept(ReplyContent)) - 1)
           /\ r.text = RefKept(ReplyContent)[r.index + 1]

\* a dropped line before a kept one: the kept one is written with index 0
C21_Witness ==
  /\ ReplyArrived
  /\ ReplyContent = <<".", "\n", "a">>
  /\ Len(lines) = 1
  /\ lines[1].currentParagraph.index = 0

\* ------------------------------------------------------------------- C25
\* a write of a progress record was rejected
WriteRejected == error = <<"client disconnected">>

C25_NothingAfterRejection ==
  WriteRejected =>
    /\ synthCalls' = synthCalls
    /\ \A k \in (Len(lines) + 1)..Len(lines') : lines'[k].currentParagraph = Null

C25_Stopped ==
  WriteRejected =>
    /\ pc \in {"errwriting", "closing", "done"}
    /\ Len(synthCalls) = Cardinality(ProgressPositions) + 1

\* C25: once a write of a record is rejected, no further synthesis call is
\* issued and no further progress record is written, the paragraphs left are
\* abandoned, and the finalizer's close of the stream is called.
C25_Cancellation ==
  /\ [](C25_Stopped)
  /\ [][C25_NothingAfterRejection]_vars
  /\ (WriteRejected ~> (closeCalls = 1 /\ pc = "done"))

\* the consumer left at the first of two paragraphs: one call, and the close
C25_Witness ==
  /\ WriteRejected
  /\ pc = "done" /\ closeCalls = 1
  /\ Len(paragraphs) = 2 /\ Len(synthCalls) = 1
  /\ lines = <<>>

\* ------------------------------------------------------------------- C28
\* the completion, every synthesis call and every write succeeded
SuccessfulRun == ReplyArrived /\ pc = "done" /\ error = NoError

RecordTexts == [k \in 1..Len(lines) |-> lines[k].currentParagraph.text]

\* C28: after a run without failure the texts of the progress records are the
\* kept paragraphs of at most 4096 characters, each once and in order, and
\* there are as many synthesis calls as records.
C28_SuccessfulRunComplete ==
  SuccessfulRun =>
    /\ ErrorPositions = {}
    /\ RecordTexts = SelectSeq(RefKept(ReplyContent), WithinLimit)
    /\ Len(synthCalls) = Len(lines)

\* an oversized paragraph before a short one: only the short one is written
C28_Witness ==
  /\ SuccessfulRun
  /\ ReplyContent = <<"A", "a", "\n", "a">>
  /\ Len(lines) = 1
  /\ lines[1].currentParagraph.index = 1

\* ------------------------------------------------------------------- C29
C29_NothingAfterClose ==
  closeCalls >= 1 =>
    /\ lines' = lines /\ pending' = pending
    /\ synthCalls' = synthCalls
    /\ completionCalls' = completionCalls
    /\ closeCalls' = closeCalls

\* C29: the stream is closed at most once, and after the close no record is
\* written and no completion or synthesis call is started.
C29_ClosedIsTerminal ==
  /\ [](closeCalls <= 1)
  /\ [][C29_NothingAfterClose]_vars

\* closed after an error record
C29_Witness ==
  /\ pc = "closing" /\ writer = "closed" /\ closeCalls = 1
  /\ Len(lines) = 1
  /\ ErrorPositions = {1}

\* ------------------------------------------------------------------- C30
\* C30: the audio of a progress record is the result of the synthesis call
\* made with the record's text and the invoking user's preferred voice: the
\* k-th record goes with the k-th call.
C30_AudioOfOwnParagraph ==
  \A k \in ProgressPositions :
    LET r == lines[k].currentParagraph IN
      /\ k <= Len(synthCalls)
      /\ synthCalls[k] = [text |-> r.text, voice |-> request.user.preferred_voice]
      /\ r.audio = <<"data:audio/mpeg;base64,", r.text, request.user.preferred_voice>>

\* two records of different texts for a user whose voice is echo
C30_Witness ==
  /\ Len(lines) = 2 /\ ErrorPositions = {}
  /\ request.user.preferred_voice = "echo"
  /\ lines[1].currentParagraph.text # lines[2].currentParagraph.text

\* ------------------------------------------------------------------- C26
\* the count stored for a pair, 0 when there is none
StoredCount(key) == IF key \in DOMAIN kv THEN ParseInt(kv[key]) ELSE 0

\* C26: for every (email, type) at most 5 requests pass checkRateLimit within
\* one window, the stored count never exceeds 5, and a request that arrives
\* when the count has reached 5 is answered 429 with no code stored and no
\* email sent, concurrent requests included.
C26_RateLimit ==
  /\ \A key \in RateLimitKeys : passed[key] <= 5 /\ StoredCount(key) <= 5
  /\ \A p \in Slots :
       inv[p].pc = "done" /\ inv[p].arrivedAt >= 5 =>
         inv[p].status = 429 /\ ~inv[p].stored /\ ~inv[p].sent

\* what holds of the code: the stored count stays within 5, and a request that
\* reads a count of 5 is answered 429 without a code or an email
C26_StoredCountBounded ==
  /\ \A key \in RateLimitKeys : StoredCount(key) <= 5
  /\ \A p \in Slots :
       inv[p].status = 429 => ~inv[p].stored /\ ~inv[p].sent

\* ------------------------------------------------------------------- C27
\* C27: a reset-pw request for an email without an account is answered 404,
\* and no code is stored and no email is sent for it.
C27_ResetUnregistered ==
  \A p \in Slots :
    /\ inv[p].pc \in {"store-code", "send", "done"}
    /\ inv[p].req.method = "POST" /\ inv[p].req.kind = "json"
    /\ inv[p].req.type = "reset-pw"
    /\ inv[p].req.email = "new@example.com"
    /\ inv[p].status # 429
    => inv[p].pc = "done" /\ inv[p].status = 404
         /\ ~inv[p].stored /\ ~inv[p].sent

\* ------------------------------------------------------------------- C22
\* handleChat has composed the messages of a valid request
Composed == pc \notin {"idle", "returned"}

\* the themes some keyword of which occurs in a text part of the content
PartThemes(items) ==
  {ThemeKeys[n] : n \in
     {m \in 1..Len(ThemeKeys) :
        \E k \in 1..Len(items) :
          /\ items[k].type = "text"
          /\ \E keyword \in Keywords(ThemeKeys[m]) :
               Includes(ToLowerCase(items[k].text), keyword)}}

\* C22: when the latest user message's content is a sequence of content parts,
\* every theme a keyword of which occurs in one of its text parts is in the
\* detected set, as it is for a plain string with the same text
C22_PartsTextDetected ==
  (Composed /\ userMessage.kind = "array") =>
    \A key \in PartThemes(userMessage.items) :
      \E j \in 1..Len(detected.returned) : detected.returned[j].type = key

\* ------------------------------------------------------------------- C23
ToneClauses(prompt) ==
  {k \in 1..Len(prompt) : prompt[k] \in {NightClause, DayClause}}

\* C23: in story mode with a current_time the prompt has exactly one
\* closing-tone clause, the night clause iff the hour written in the timestamp
\* is >= 19 or < 6 and the day clause otherwise, whatever its offset; without
\* current_time or in qna mode it has none
C23_ToneByWrittenHour ==
  Composed =>
    LET prompt == messages[1].content
        written == TwoDigits(request.current_time, 12)
    IN IF QueryType(request) = "story" /\ request.current_time # ""
       THEN /\ Cardinality(ToneClauses(prompt)) = 1
            /\ \A k \in ToneClauses(prompt) :
                 prompt[k] = NightClause <=> (written >= 19 \/ written < 6)
       ELSE ToneClauses(prompt) = {}

\* ------------------------------------------------------------------- C24
\* C24: the messages handed to the completion call are one system message with
\* the composed prompt followed by the caller's history, in order and
\* unmodified: no welcome message, and not the reply pushed onto the history
\* afterwards
C24_SystemThenHistory ==
  Composed =>
    /\ Len(messages) = Len(CallerHistory) + 1
    /\ messages[1].role = "system"
    /\ messages[1].content =
         generateSystemPrompt(request.year - request.user.yob,
                              request.current_time, request.isVisual,
                              request.visual_task, detected.returned,
                              QueryType(request), request.zone)
    /\ \A k \in 1..Len(CallerHistory) : messages[k + 1] = CallerHistory[k]
    /\ \A k \in 2..Len(messages) : messages[k].role # "system"

\* a visual request with a history of three messages whose reply was pushed
C24_Witness ==
  /\ Composed
  /\ request.isVisual
  /\ Len(CallerHistory) = 3
  /\ Len(dialogHistory) = 4
  /\ Len(messages) = 4

====
